---- MODULE Spec2Model ----
(***************************************************************************)
(* Model of inputremapper/migrations.py: the version-gated migration of    *)
(* the configuration tree (config file, preset directories, preset files). *)
(*                                                                         *)
(* Three specifications share the definitions:                             *)
(*   Spec        migrate() stepping through its filesystem operations,     *)
(*               with restarts after an interruption;                      *)
(*   SpecPreset  the per-preset transforms of _mapping_keys and            *)
(*               _add_target applied to one preset dict;                   *)
(*   SpecTarget  _find_target applied to one symbol under a registry.      *)
(***************************************************************************)
EXTENDS Integers, Sequences, FiniteSets, TLC

VARIABLES
    fs,        \* the two config roots: [cur |-> Root, old |-> Root]
    pc,        \* position of the running migrate(), "idle" between runs
    v,         \* the version migrate() read at line 207
    todo,      \* what the loop at pc still has to visit
    prepared,  \* global_uinputs.prepare() has run in this process
    log,       \* steps the current run of migrate() has executed, in order
    runs,      \* invocations of migrate() started
    done,      \* invocations of migrate() that returned normally
    crashes,   \* interruptions so far
    init,      \* the tree at Init
    last,      \* history: the trees at the last two normal returns of migrate()
    pd,        \* SpecPreset: the preset dict being transformed
    pd0,       \* SpecPreset: the preset dict before the last transform
    applied,   \* SpecPreset: the transforms applied so far, in order
    reg,       \* SpecTarget / SpecPreset: global_uinputs.devices
    sym,       \* SpecTarget: the symbol handed to _find_target
    res        \* SpecTarget: what _find_target returned, <<>> before the call

vars == <<fs, pc, v, todo, prepared, log, runs, done, crashes, init,
          last, pd, pd0, applied, reg, sym, res>>

runVars == <<fs, pc, v, todo, prepared, log, runs, done, crashes,
             init, last>>

presetVars == <<pd, pd0, applied>>

targetVars == <<sym, res>>

----------------------------------------------------------------------------
(* Bounds of the model *)

MaxGroups == 2      \* group directories in a tree at Init
MaxRuns == 2        \* invocations of migrate()
MaxCrashes == 1     \* interruptions
MaxEntries == 2     \* entries of a preset mapping (SpecPreset)
MaxApplied == 2     \* transforms applied to a preset dict (SpecPreset)
MaxDevices == 2     \* registered output devices (SpecTarget)
MaxCode == 2        \* event codes 1..MaxCode (SpecTarget)

----------------------------------------------------------------------------
(* Versions: pkg_resources.parse_version of "a.b.c" as the triple <<a,b,c>> *)

VersionLess(a, b) ==
    \/ a[1] < b[1]
    \/ a[1] = b[1] /\ a[2] < b[2]
    \/ a[1] = b[1] /\ a[2] = b[2] /\ a[3] < b[3]

VERSION == <<1, 4, 0>>

\* the gates of migrate(), lines 208, 212, 215, 218 and 224
Gate040(ver) == VersionLess(ver, <<0, 4, 0>>)

\* <= in place of < at line 212
Gate122Inclusive(ver) == ~VersionLess(<<1, 2, 2>>, ver)

Gate122(ver) == VersionLess(ver, <<1, 2, 2>>)

Gate130(ver) == VersionLess(ver, <<1, 3, 0>>)

\* > in place of < at line 218
Gate140Above(ver) == VersionLess(<<1, 4, 0>>, ver)

Gate140(ver) == VersionLess(ver, <<1, 4, 0>>)

\* the test of line 224 left out: the version is stamped on every run
GateVersionAlways(ver) == TRUE

GateVersion(ver) == VersionLess(ver, VERSION)

\* lines 208-225: the steps migrate() runs when it has read ver
GatedSteps(ver) ==
    (IF Gate040(ver) THEN {"_config_suffix", "_preset_path"} ELSE {})
    \cup (IF Gate122(ver) THEN {"_mapping_keys"} ELSE {})
    \cup (IF Gate130(ver) THEN {"_rename_config"} ELSE {})
    \cup (IF Gate140(ver) THEN {"prepare", "_add_target"} ELSE {})
    \cup (IF GateVersion(ver) THEN {"_update_version"} ELSE {})

----------------------------------------------------------------------------
(* Mapping values and symbols.                                             *)
(* A symbol string is the sequence of its lines; a mapping value is a bare *)
(* symbol (isList = FALSE) or the list [symbol, target].                   *)

NoTarget == "<None>"

Bare(symbol) == [isList |-> FALSE, symbol |-> symbol, target |-> ""]

Pair(symbol, target) == [isList |-> TRUE, symbol |-> symbol, target |-> target]

\* line 192: f"{symbol}\n# Broken mapping:\n# No target can handle all specified keycodes"
Annotate(symbol) ==
    symbol \o <<"# Broken mapping:", "# No target can handle all specified keycodes">>

(* The collaborators of _find_target, by symbol: is_this_a_macro, parse    *)
(* (fails on a malformed macro), Macro.get_capabilities, and               *)
(* system_mapping.get (fails on an unknown name).                          *)
SymbolTable ==
    [s \in {"KEY_A", "BTN_X", "nope", "k(KEY_A).k(BTN_X)", "mouse(up,1)",
            "k(KEY_A).k(BTN_X).wheel(up,1)", "wait(10)", "k("} |->
        CASE s = "KEY_A" -> [macro |-> FALSE, ok |-> TRUE, key |-> {1}, rel |-> {}]
          [] s = "BTN_X" -> [macro |-> FALSE, ok |-> TRUE, key |-> {2}, rel |-> {}]
          [] s = "nope" -> [macro |-> FALSE, ok |-> FALSE, key |-> {}, rel |-> {}]
          [] s = "k(KEY_A).k(BTN_X)" ->
                [macro |-> TRUE, ok |-> TRUE, key |-> {1, 2}, rel |-> {}]
          [] s = "mouse(up,1)" -> [macro |-> TRUE, ok |-> TRUE, key |-> {}, rel |-> {1}]
          [] s = "k(KEY_A).k(BTN_X).wheel(up,1)" ->
                [macro |-> TRUE, ok |-> TRUE, key |-> {1, 2}, rel |-> {2}]
          [] s = "wait(10)" -> [macro |-> TRUE, ok |-> TRUE, key |-> {}, rel |-> {}]
          [] s = "k(" -> [macro |-> TRUE, ok |-> FALSE, key |-> {}, rel |-> {}]]

SymbolNames == DOMAIN SymbolTable

is_this_a_macro(symbol) == SymbolTable[symbol[1]].macro

\* parse(symbol) raises, or system_mapping.get(symbol) fails
Resolvable(symbol) == SymbolTable[symbol[1]].ok

\* lines 152-156: capabilities = {EV_KEY: ..., EV_REL: ...}
Capabilities(symbol) ==
    IF is_this_a_macro(symbol)
    THEN [key |-> SymbolTable[symbol[1]].key, rel |-> SymbolTable[symbol[1]].rel]
    ELSE [key |-> SymbolTable[symbol[1]].key, rel |-> {}]

----------------------------------------------------------------------------
(* _find_target, lines 150-166.  devices is global_uinputs.devices as the  *)
(* sequence of its items in enumeration order: [name, key].                *)

Suitable(capabilities, devices) ==
    {i \in DOMAIN devices : capabilities.key \subseteq devices[i].key}

\* the loop of line 161 keeps going after a match: the last match wins
LastSuitable(capabilities, devices) ==
    LET ok == Suitable(capabilities, devices)
    IN  devices[CHOOSE i \in ok : \A j \in ok : i >= j].name

FirstSuitable(capabilities, devices) ==
    LET ok == Suitable(capabilities, devices)
    IN  devices[CHOOSE i \in ok : \A j \in ok : i <= j].name

_find_target(symbol, devices) ==
    IF ~Resolvable(symbol)
    THEN [raised |-> TRUE, target |-> NoTarget]
    ELSE LET capabilities == Capabilities(symbol)
         IN  IF capabilities.rel # {}
             THEN [raised |-> FALSE, target |-> "mouse"]
             ELSE IF Suitable(capabilities, devices) # {}
             THEN [raised |-> FALSE, target |-> FirstSuitable(capabilities, devices)]
             ELSE [raised |-> FALSE, target |-> NoTarget]

----------------------------------------------------------------------------
(* A preset's "mapping": a dict, kept as the sequence of its entries       *)
(* [key, val] in insertion order.  A key "1,5,1" is the sequence <<1,5,1>>.*)

DictKeys(m) == {m[i].key : i \in DOMAIN m}

DictGet(m, key) == m[CHOOSE i \in DOMAIN m : m[i].key = key].val

\* dict.pop(key)
DictPop(m, key) == SelectSeq(m, LAMBDA e : e.key # key)

\* dict[key] = val: an existing key keeps its place, a new one goes last
DictSet(m, key, val) ==
    IF key \in DictKeys(m)
    THEN [i \in DOMAIN m |-> IF m[i].key = key THEN [key |-> key, val |-> val] ELSE m[i]]
    ELSE Append(m, [key |-> key, val |-> val])

\* key.count(",")
CountCommas(key) == Len(key) - 1

\* f"{key},1"
WithValue(key) == Append(key, 1)

\* line 120 with a read in place of the pop: the old key stays
CopyKey(m, key) == DictSet(m, WithValue(key), DictGet(m, key))

\* line 120: preset_dict["mapping"][f"{key},1"] = preset_dict["mapping"].pop(key)
MoveKey(m, key) == DictSet(DictPop(m, key), WithValue(key), DictGet(m, key))

\* lines 119-120, one iteration of the loop over the copied keys
NormalizeKey(m, key) == IF CountCommas(key) = 1 THEN MoveKey(m, key) ELSE m

RECURSIVE NormalizeKeys(_, _)
\* lines 117-120: keys is list(copy.deepcopy(mapping).keys()) still to visit
NormalizeKeys(m, keys) ==
    IF keys = <<>> THEN m
    ELSE NormalizeKeys(NormalizeKey(m, Head(keys)), Tail(keys))

KeyList(m) == [i \in DOMAIN m |-> m[i].key]

(* A preset file: ok = it parses as JSON; pretty = its bytes are those of  *)
(* json.dump(preset_dict, indent=4) followed by a newline.                 *)
BadPreset == [ok |-> FALSE, hasMapping |-> FALSE, mapping |-> <<>>, pretty |-> FALSE]

\* lines 116-124 for one loaded preset_dict: what is written back
MappingKeysDict(preset_dict) ==
    IF preset_dict.hasMapping
    THEN [preset_dict EXCEPT !.mapping = NormalizeKeys(@, KeyList(@)),
                             !.pretty = TRUE]
    ELSE [preset_dict EXCEPT !.pretty = TRUE]

\* the continue of line 114 left out: a file that does not parse is rewritten too
MappingKeysFileRewrites(file) == MappingKeysDict(file)

\* lines 110-124 for one preset file
MappingKeysFile(file) == IF ~file.ok THEN file ELSE MappingKeysDict(file)

\* line 192 left out: the fallback target without the annotation
TargetedValueUnmarked(val, devices) ==
    IF val.isList THEN val
    ELSE LET target == _find_target(val.symbol, devices).target
         IN  Pair(val.symbol, IF target = NoTarget THEN "keyboard" ELSE target)

\* the test of lines 186-187 left out: a pair is resolved like a bare symbol
TargetedValueAgain(val, devices) ==
    LET target == _find_target(val.symbol, devices).target
    IN  IF target = NoTarget
        THEN Pair(Annotate(val.symbol), "keyboard")
        ELSE Pair(val.symbol, target)

\* lines 186-198, one iteration: the new value of the entry
TargetedValue(val, devices) ==
    IF val.isList THEN val
    ELSE LET target == _find_target(val.symbol, devices).target
         IN  IF target = NoTarget
             THEN Pair(Annotate(val.symbol), "keyboard")
             ELSE Pair(val.symbol, target)

\* _find_target raises for some bare symbol of the mapping
TargetRaises(m, devices) ==
    \E i \in DOMAIN m : ~m[i].val.isList /\ _find_target(m[i].val.symbol, devices).raised

\* lines 185-198: the whole loop, none of whose iterations raised
AddTargets(m, devices) ==
    [i \in DOMAIN m |-> [key |-> m[i].key, val |-> TargetedValue(m[i].val, devices)]]

\* lines 182-202 for one loaded preset_dict
AddTargetDict(preset_dict, devices) ==
    IF ~preset_dict.hasMapping THEN preset_dict
    ELSE [preset_dict EXCEPT !.mapping = AddTargets(@, devices), !.pretty = TRUE]

\* lines 174-202 for one preset file: raised = the exception leaves _add_target
AddTargetFile(file, devices) ==
    IF ~file.ok THEN [raised |-> FALSE, file |-> file]
    ELSE IF file.hasMapping /\ TargetRaises(file.mapping, devices)
    THEN [raised |-> TRUE, file |-> file]
    ELSE [raised |-> FALSE, file |-> AddTargetDict(file, devices)]

----------------------------------------------------------------------------
(* The filesystem.  A config root is                                       *)
(*   [exists, config, configjson, dirs, hasPresets, presets]:              *)
(* the extensionless "config" file, "config.json", the directories at its  *)
(* top level other than "presets" (name -> directory), and "presets"       *)
(* (group name -> directory).  A directory maps file names to preset files.*)
(* fs.cur is CONFIG_PATH, fs.old is HOME/.config/key-mapper.               *)

NoFile == [exists |-> FALSE, ok |-> FALSE, hasVersion |-> FALSE,
           version |-> <<0, 0, 0>>, settings |-> ""]

EmptyDir == [x \in {} |-> BadPreset]

NoRoot == [exists |-> FALSE, config |-> NoFile, configjson |-> NoFile,
           dirs |-> EmptyDir, hasPresets |-> FALSE, presets |-> EmptyDir]

Without(dir, name) == [x \in DOMAIN dir \ {name} |-> dir[x]]

With(dir, name, entry) == [x \in DOMAIN dir \cup {name} |-> IF x = name THEN entry ELSE dir[x]]

\* os.path.exists(get_preset_path())
PresetPathExists(f) == f.cur.exists /\ f.cur.hasPresets

\* all_presets(), lines 41-52: the paths <<group, preset>> under presets/
FileNames == {"preset.json", "notes.txt"}

\* line 50: preset.suffix == ".json"
HasJsonSuffix(name) == name = "preset.json"

all_presets(f) ==
    {path \in (DOMAIN f.cur.presets) \X FileNames :
        path[2] \in DOMAIN f.cur.presets[path[1]] /\ HasJsonSuffix(path[2])}

PresetAt(f, path) == f.cur.presets[path[1]][path[2]]

WritePreset(f, path, file) ==
    [f EXCEPT !.cur.presets[path[1]] = With(@, path[2], file)]

\* config_version(), lines 55-68; json.load raises on a config.json that does not parse
ConfigVersionRaises(f) == f.cur.configjson.exists /\ ~f.cur.configjson.ok

config_version(f) ==
    IF ~f.cur.configjson.exists THEN <<0, 0, 0>>
    ELSE IF f.cur.configjson.hasVersion THEN f.cur.configjson.version
    ELSE <<0, 0, 0>>

\* the rename of line 77 left out
ConfigSuffixSkipped(f) == f

\* _config_suffix(), lines 71-77
_config_suffix(f) ==
    IF f.cur.config.exists /\ ~f.cur.configjson.exists
    THEN [f EXCEPT !.cur.configjson = f.cur.config, !.cur.config = NoFile]
    ELSE f

\* line 86 without its first test: an existing presets/ does not stop the move
PresetPathIgnoresPresets(f) == ~f.cur.exists

\* _preset_path(), line 86: the early return
PresetPathReturns(f) == PresetPathExists(f) \/ ~f.cur.exists

\* lines 90-91: mkdir(get_preset_path())
MkPresetDir(f) == [f EXCEPT !.cur.hasPresets = TRUE, !.cur.presets = EmptyDir]

\* a copy in place of the os.rename of line 97: the directory stays where it was
MoveGroupCopies(f, group) ==
    [f EXCEPT !.cur.presets = With(@, group, f.cur.dirs[group])]

\* lines 93-97: os.rename(path, target) of one top-level directory
MoveGroup(f, group) ==
    [f EXCEPT !.cur.presets = With(@, group, f.cur.dirs[group]),
              !.cur.dirs = Without(@, group)]

\* line 145 without its first test: an existing CONFIG_PATH is replaced
RenameConfigOverwrites(f) ==
    IF f.old.exists THEN [cur |-> f.old, old |-> NoRoot] ELSE f

\* _rename_config(), lines 142-147
_rename_config(f) ==
    IF ~f.cur.exists /\ f.old.exists
    THEN [cur |-> f.old, old |-> NoRoot]
    ELSE f

\* _update_version(), lines 127-139; json.load raises on a config.json that does not parse
UpdateVersionRaises(f) == f.cur.configjson.exists /\ ~f.cur.configjson.ok

\* line 137 left out: the file is rewritten as it was loaded
UpdateVersionUnset(f) == f

\* lines 130-131 left out: without a config.json one is written, holding the version
UpdateVersionCreates(f) ==
    [f EXCEPT !.cur.configjson =
        IF @.exists THEN [@ EXCEPT !.hasVersion = TRUE, !.version = VERSION]
        ELSE [exists |-> TRUE, ok |-> TRUE, hasVersion |-> TRUE, version |-> VERSION,
              settings |-> ""]]

_update_version(f) ==
    IF ~f.cur.configjson.exists THEN f
    ELSE [f EXCEPT !.cur.configjson.hasVersion = TRUE,
                   !.cur.configjson.version = VERSION]

\* global_uinputs.devices: empty until prepare(), then the default devices
DefaultDevices ==
    << [name |-> "keyboard", key |-> {1}],
       [name |-> "gamepad", key |-> {2}],
       [name |-> "mouse", key |-> {}] >>

Devices(isPrepared) == IF isPrepared THEN DefaultDevices ELSE <<>>

----------------------------------------------------------------------------
(* The functions run to their end, and migrate() as their composition:     *)
(* what one uninterrupted call makes of a tree.                            *)

\* _preset_path(), lines 80-99
_preset_path(f) ==
    IF PresetPathReturns(f) THEN f
    ELSE [f EXCEPT !.cur.hasPresets = TRUE, !.cur.presets = f.cur.dirs,
                   !.cur.dirs = EmptyDir]

\* _mapping_keys(), lines 102-124
_mapping_keys(f) ==
    IF ~PresetPathExists(f) THEN f
    ELSE [f EXCEPT !.cur.presets =
            [g \in DOMAIN f.cur.presets |->
                [p \in DOMAIN f.cur.presets[g] |->
                    IF HasJsonSuffix(p) THEN MappingKeysFile(f.cur.presets[g][p])
                    ELSE f.cur.presets[g][p]]]]

\* _add_target(), lines 169-202: some preset makes _find_target raise
AddTargetRaises(f, devices) ==
    /\ PresetPathExists(f)
    /\ \E path \in all_presets(f) : AddTargetFile(PresetAt(f, path), devices).raised

\* _add_target(), lines 169-202, when nothing raises
_add_target(f, devices) ==
    IF ~PresetPathExists(f) THEN f
    ELSE [f EXCEPT !.cur.presets =
            [g \in DOMAIN f.cur.presets |->
                [p \in DOMAIN f.cur.presets[g] |->
                    IF HasJsonSuffix(p) THEN AddTargetFile(f.cur.presets[g][p], devices).file
                    ELSE f.cur.presets[g][p]]]]

\* migrate(), lines 205-225: [raised, fs]; fs is the tree it returns with
migrate(f) ==
    IF ConfigVersionRaises(f) THEN [raised |-> TRUE, fs |-> f]
    ELSE LET v0 == config_version(f)
             f1 == IF Gate040(v0) THEN _preset_path(_config_suffix(f)) ELSE f
             f2 == IF Gate122(v0) THEN _mapping_keys(f1) ELSE f1
             f3 == IF Gate130(v0) THEN _rename_config(f2) ELSE f2
             r4 == Gate140(v0) /\ AddTargetRaises(f3, DefaultDevices)
             f4 == IF Gate140(v0) THEN _add_target(f3, DefaultDevices) ELSE f3
             r5 == GateVersion(v0) /\ UpdateVersionRaises(f4)
             f5 == IF GateVersion(v0) THEN _update_version(f4) ELSE f4
         IN  IF r4 THEN [raised |-> TRUE, fs |-> f3]
             ELSE IF r5 THEN [raised |-> TRUE, fs |-> f4]
             ELSE [raised |-> FALSE, fs |-> f5]

----------------------------------------------------------------------------
(* migrate(), lines 205-225, one action per filesystem operation.          *)
(* pc: "idle" (not running), "g040" (line 208), "preset_path" (line 210),  *)
(* "move" (the loop of line 92), "g122" (line 212), "keys" (the loop of    *)
(* line 109), "g130" (line 215), "g140" (line 218), "target" (the loop of  *)
(* line 174), "gver" (line 224).                                           *)

(* last.set: migrate() has returned normally, with the tree last.fs;       *)
(* last.clean: no invocation was interrupted or raised since;              *)
(* last.twice: the invocation before that return had returned normally     *)
(* too, with the tree last.prev, and nothing happened in between;          *)
(* last.repaired: a preset file a step had skipped has been repaired.      *)
NoSnapshot == [set |-> FALSE, fs |-> [cur |-> NoRoot, old |-> NoRoot], clean |-> FALSE,
               twice |-> FALSE, prev |-> [cur |-> NoRoot, old |-> NoRoot],
               repaired |-> FALSE]

Unclean == [last EXCEPT !.clean = FALSE]

Returned(tree) ==
    [set |-> TRUE, fs |-> tree, clean |-> TRUE, twice |-> last.set /\ last.clean,
     prev |-> IF last.set /\ last.clean THEN last.fs ELSE NoSnapshot.prev,
     repaired |-> last.repaired]

\* an exception leaves migrate()
Raise(events) ==
    /\ pc' = "idle"
    /\ todo' = {}
    /\ log' = log \o events \o <<"raise">>
    /\ last' = Unclean

\* line 207: v = config_version()
Start ==
    /\ pc = "idle"
    /\ runs < MaxRuns
    /\ runs' = runs + 1
    /\ IF ConfigVersionRaises(fs)
       THEN /\ pc' = "idle"
            /\ log' = <<"config_version", "raise">>
            /\ last' = Unclean
            /\ v' = v
       ELSE /\ pc' = "g040"
            /\ log' = <<"config_version">>
            /\ v' = config_version(fs)
            /\ last' = last
    /\ UNCHANGED <<fs, todo, prepared, done, crashes, init>>

\* lines 208-209: the gate of 0.4.0 and _config_suffix()
ConfigSuffix ==
    /\ pc = "g040"
    /\ IF Gate040(v)
       THEN /\ fs' = _config_suffix(fs)
            /\ pc' = "preset_path"
            /\ log' = Append(log, "_config_suffix")
       ELSE /\ pc' = "g122"
            /\ UNCHANGED <<fs, log>>
    /\ UNCHANGED <<v, todo, prepared, runs, done, crashes, init, last>>

\* line 210 and lines 85-91: _preset_path() up to the mkdir
PresetPath ==
    /\ pc = "preset_path"
    /\ log' = Append(log, "_preset_path")
    /\ IF PresetPathReturns(fs)
       THEN /\ pc' = "g122"
            /\ UNCHANGED <<fs, todo>>
       ELSE /\ fs' = MkPresetDir(fs)
            /\ todo' = DOMAIN fs.cur.dirs
            /\ pc' = IF todo' = {} THEN "g122" ELSE "move"
    /\ UNCHANGED <<v, prepared, runs, done, crashes, init, last>>

\* lines 92-97: one directory moved under presets/
MoveGroups ==
    /\ pc = "move"
    /\ \E group \in todo :
        /\ fs' = MoveGroup(fs, group)
        /\ todo' = todo \ {group}
    /\ pc' = IF todo' = {} THEN "g122" ELSE "move"
    /\ UNCHANGED <<v, prepared, log, runs, done, crashes, init, last>>

\* lines 212-213 and 107-109: the gate of 1.2.2 and the start of _mapping_keys()
MappingKeys ==
    /\ pc = "g122"
    /\ IF Gate122(v)
       THEN /\ log' = Append(log, "_mapping_keys")
            /\ todo' = IF PresetPathExists(fs) THEN all_presets(fs) ELSE {}
            /\ pc' = IF todo' = {} THEN "g130" ELSE "keys"
       ELSE /\ pc' = "g130"
            /\ UNCHANGED <<todo, log>>
    /\ UNCHANGED <<fs, v, prepared, runs, done, crashes, init, last>>

\* lines 109-124: one preset file loaded, normalized and written back
MappingKeysStep ==
    /\ pc = "keys"
    /\ \E path \in todo :
        /\ fs' = WritePreset(fs, path, MappingKeysFile(PresetAt(fs, path)))
        /\ todo' = todo \ {path}
    /\ pc' = IF todo' = {} THEN "g130" ELSE "keys"
    /\ UNCHANGED <<v, prepared, log, runs, done, crashes, init, last>>

\* lines 215-216: the gate of 1.3.0 and _rename_config()
RenameConfig ==
    /\ pc = "g130"
    /\ IF Gate130(v)
       THEN /\ fs' = _rename_config(fs)
            /\ log' = Append(log, "_rename_config")
       ELSE UNCHANGED <<fs, log>>
    /\ pc' = "g140"
    /\ UNCHANGED <<v, todo, prepared, runs, done, crashes, init, last>>

\* lines 218-220 and 171-174: the gate of 1.4.0, prepare() and the start of _add_target()
AddTarget ==
    /\ pc = "g140"
    /\ IF Gate140(v)
       THEN /\ prepared' = TRUE
            /\ log' = log \o <<"prepare", "_add_target">>
            /\ todo' = IF PresetPathExists(fs) THEN all_presets(fs) ELSE {}
            /\ pc' = IF todo' = {} THEN "gver" ELSE "target"
       ELSE /\ pc' = "gver"
            /\ UNCHANGED <<todo, prepared, log>>
    /\ UNCHANGED <<fs, v, runs, done, crashes, init, last>>

\* _add_target calls _find_target for this file (line 189)
Resolves(file) ==
    file.ok /\ file.hasMapping /\ \E i \in DOMAIN file.mapping : ~file.mapping[i].val.isList

\* lines 174-202: one preset file loaded, its bare symbols paired, written back
AddTargetStep ==
    /\ pc = "target"
    /\ \E path \in todo :
        LET file == PresetAt(fs, path)
            out == AddTargetFile(file, Devices(prepared))
        IN  IF out.raised
            THEN /\ Raise(<<"_find_target">>)
                 /\ fs' = fs
            ELSE /\ fs' = WritePreset(fs, path, out.file)
                 /\ todo' = todo \ {path}
                 /\ pc' = IF todo' = {} THEN "gver" ELSE "target"
                 /\ log' = IF Resolves(file) THEN Append(log, "_find_target") ELSE log
                 /\ last' = last
    /\ UNCHANGED <<v, prepared, runs, done, crashes, init>>

\* lines 224-225: the gate of VERSION and _update_version(); migrate() returns
UpdateVersion ==
    /\ pc = "gver"
    /\ IF GateVersion(v) /\ UpdateVersionRaises(fs)
       THEN /\ Raise(<<"_update_version">>)
            /\ UNCHANGED <<fs, done>>
       ELSE /\ fs' = IF GateVersion(v) THEN _update_version(fs) ELSE fs
            /\ log' = IF GateVersion(v) THEN Append(log, "_update_version") ELSE log
            /\ pc' = "idle"
            /\ done' = done + 1
            /\ last' = Returned(fs')
            /\ todo' = todo
    /\ UNCHANGED <<v, prepared, runs, crashes, init>>

\* the process is interrupted between two filesystem operations
Crash ==
    /\ pc # "idle"
    /\ crashes < MaxCrashes
    /\ crashes' = crashes + 1
    /\ pc' = "idle"
    /\ todo' = {}
    /\ prepared' = FALSE
    /\ log' = <<>>
    /\ v' = <<0, 0, 0>>
    /\ last' = Unclean
    /\ UNCHANGED <<fs, runs, done, init>>

----------------------------------------------------------------------------
(* The trees at Init.                                                      *)

Symbol(name) == <<name>>

Entry(key, val) == [key |-> key, val |-> val]

RawPreset(mapping) == [ok |-> TRUE, hasMapping |-> TRUE, mapping |-> mapping, pretty |-> FALSE]

\* what the user makes of a malformed preset file: a legacy preset
RepairedPreset == RawPreset(<< Entry(<<3, 7>>, Bare(Symbol("BTN_X"))) >>)

(* Between two invocations the user repairs a preset file that the         *)
(* target-annotation step of the last, completed, invocation skipped as    *)
(* malformed (lines 178-180).                                              *)
Repair ==
    /\ pc = "idle"
    /\ runs < MaxRuns
    /\ last.set /\ last.clean
    /\ \E i \in DOMAIN log : log[i] = "_add_target"
    /\ PresetPathExists(fs)
    /\ \E path \in all_presets(fs) :
          /\ ~PresetAt(fs, path).ok
          /\ fs' = WritePreset(fs, path, RepairedPreset)
    /\ last' = [last EXCEPT !.clean = FALSE, !.repaired = TRUE]
    /\ UNCHANGED <<pc, v, todo, prepared, log, runs, done, crashes, init>>

OnePreset(file) == [x \in {"preset.json"} |-> file]

\* the group directories a tree at Init is made of; the fourth holds a file
\* that is no preset beside its preset
GroupCatalog ==
    << EmptyDir,
       OnePreset(BadPreset),
       OnePreset([ok |-> TRUE, hasMapping |-> FALSE, mapping |-> <<>>, pretty |-> FALSE]),
       With(OnePreset(RawPreset(<< Entry(<<1, 5>>, Bare(Symbol("KEY_A"))),
                                   Entry(<<2, 8, 1>>, Bare(Symbol("mouse(up,1)"))) >>)),
            "notes.txt", BadPreset),
       OnePreset(RawPreset(<< Entry(<<1, 5>>, Bare(Symbol("KEY_A"))),
                              Entry(<<1, 5, 1>>, Bare(Symbol("BTN_X"))) >>)),
       OnePreset([RawPreset(<< Entry(<<1, 5, 1>>, Pair(Symbol("KEY_A"), "keyboard")) >>)
                    EXCEPT !.pretty = TRUE]),
       OnePreset(RawPreset(<< Entry(<<1, 6, 1>>, Bare(Symbol("k("))) >>)) >>

\* group names are 1..n; the groups of a tree, up to renaming
GroupChoices ==
    {c \in UNION {[1..n -> 1..Len(GroupCatalog)] : n \in 0..MaxGroups} :
        \A i \in 1..(Len(c) - 1) : c[i] <= c[i + 1]}

GroupsOf(c) == [g \in 1..Len(c) |-> GroupCatalog[c[g]]]

Config(hasVersion, version) ==
    [exists |-> TRUE, ok |-> TRUE, hasVersion |-> hasVersion, version |-> version,
     settings |-> "autoload"]

BadConfig == [exists |-> TRUE, ok |-> FALSE, hasVersion |-> FALSE,
              version |-> <<0, 0, 0>>, settings |-> ""]

StoredVersions == {<<0, 4, 0>>, <<1, 2, 2>>, <<1, 3, 0>>, <<1, 4, 0>>, <<1, 5, 0>>}

\* <<config, config.json>>
ConfigChoices ==
    ({NoFile} \X ({NoFile, BadConfig, Config(FALSE, <<0, 0, 0>>)}
                    \cup {Config(TRUE, ver) : ver \in StoredVersions}))
    \cup ({Config(FALSE, <<0, 0, 0>>), BadConfig} \X {NoFile, Config(FALSE, <<0, 0, 0>>)})

FlatRoot(c, cfg) ==
    [exists |-> TRUE, config |-> cfg[1], configjson |-> cfg[2],
     dirs |-> GroupsOf(c), hasPresets |-> FALSE, presets |-> EmptyDir]

NestedRoot(c, cfg) ==
    [exists |-> TRUE, config |-> cfg[1], configjson |-> cfg[2],
     dirs |-> EmptyDir, hasPresets |-> TRUE, presets |-> GroupsOf(c)]

\* presets/ beside a directory left at the top level
MixedRoot(cfg) ==
    [exists |-> TRUE, config |-> cfg[1], configjson |-> cfg[2],
     dirs |-> [g \in {2} |-> GroupCatalog[4]], hasPresets |-> TRUE,
     presets |-> [g \in {1} |-> GroupCatalog[2]]]

Roots ==
    {FlatRoot(c, cfg) : c \in GroupChoices, cfg \in ConfigChoices}
    \cup {NestedRoot(c, cfg) : c \in GroupChoices, cfg \in ConfigChoices}
    \cup {MixedRoot(cfg) : cfg \in ConfigChoices}

\* a key-mapper directory left beside an existing input-remapper one
Leftover == FlatRoot(<<4>>, <<Config(FALSE, <<0, 0, 0>>), NoFile>>)

Trees ==
    {[cur |-> NoRoot, old |-> NoRoot]}
    \cup {[cur |-> r, old |-> NoRoot] : r \in Roots}
    \cup {[cur |-> NoRoot, old |-> r] : r \in Roots}
    \cup {[cur |-> r, old |-> Leftover] : r \in Roots}

NoPreset == [ok |-> FALSE, hasMapping |-> FALSE, mapping |-> <<>>, pretty |-> FALSE]

NoResult == [called |-> FALSE, raised |-> FALSE, target |-> NoTarget]

InitRun ==
    /\ fs \in Trees
    /\ init = fs
    /\ pc = "idle"
    /\ v = <<0, 0, 0>>
    /\ todo = {}
    /\ prepared = FALSE
    /\ log = <<>>
    /\ runs = 0
    /\ done = 0
    /\ crashes = 0
    /\ last = NoSnapshot

Init ==
    /\ InitRun
    /\ pd = NoPreset /\ pd0 = NoPreset /\ applied = <<>>
    /\ reg = <<>> /\ sym = <<>> /\ res = NoResult

Next ==
    \/ Start /\ UNCHANGED <<presetVars, reg, targetVars>>
    \/ ConfigSuffix /\ UNCHANGED <<presetVars, reg, targetVars>>
    \/ PresetPath /\ UNCHANGED <<presetVars, reg, targetVars>>
    \/ MoveGroups /\ UNCHANGED <<presetVars, reg, targetVars>>
    \/ MappingKeys /\ UNCHANGED <<presetVars, reg, targetVars>>
    \/ MappingKeysStep /\ UNCHANGED <<presetVars, reg, targetVars>>
    \/ RenameConfig /\ UNCHANGED <<presetVars, reg, targetVars>>
    \/ AddTarget /\ UNCHANGED <<presetVars, reg, targetVars>>
    \/ AddTargetStep /\ UNCHANGED <<presetVars, reg, targetVars>>
    \/ UpdateVersion /\ UNCHANGED <<presetVars, reg, targetVars>>
    \/ Crash /\ UNCHANGED <<presetVars, reg, targetVars>>
    \/ Repair /\ UNCHANGED <<presetVars, reg, targetVars>>

Spec == Init /\ [][Next]_vars

----------------------------------------------------------------------------
(* SpecPreset: the transforms of _mapping_keys and _add_target applied, in *)
(* any order and repeatedly, to one loaded preset dict.                    *)

PresetKeys == {<<3>>, <<1, 5>>, <<1, 5, 1>>, <<1, 5, 1, 1>>}

PresetValues ==
    {Bare(Symbol(n)) : n \in {"KEY_A", "k(KEY_A).k(BTN_X)", "mouse(up,1)",
                               "k(KEY_A).k(BTN_X).wheel(up,1)", "k("}}
    \cup {Pair(Symbol("KEY_A"), "keyboard"), Pair(Symbol("k("), "gamepad")}

Distinct(keys) == \A i, j \in DOMAIN keys : i # j => keys[i] # keys[j]

Mappings ==
    UNION {{[i \in 1..n |-> Entry(keys[i], vals[i])] :
               keys \in {k \in [1..n -> PresetKeys] : Distinct(k)},
               vals \in [1..n -> PresetValues]} : n \in 0..MaxEntries}

PresetDicts ==
    {RawPreset(m) : m \in Mappings}
    \cup {[ok |-> TRUE, hasMapping |-> FALSE, mapping |-> <<>>, pretty |-> FALSE]}

IdleRun ==
    /\ fs = [cur |-> NoRoot, old |-> NoRoot]
    /\ init = fs
    /\ pc = "idle"
    /\ v = <<0, 0, 0>>
    /\ todo = {}
    /\ prepared = FALSE
    /\ log = <<>>
    /\ runs = 0
    /\ done = 0
    /\ crashes = 0
    /\ last = NoSnapshot

InitPreset ==
    /\ IdleRun
    /\ pd0 \in PresetDicts
    /\ pd = pd0
    /\ applied = <<>>
    /\ reg = DefaultDevices
    /\ sym = <<>> /\ res = NoResult

\* lines 116-124 on the loaded dict
ApplyMappingKeys ==
    /\ Len(applied) < MaxApplied
    /\ pd0' = pd
    /\ pd' = MappingKeysDict(pd)
    /\ applied' = Append(applied, "_mapping_keys")
    /\ UNCHANGED <<runVars, reg, targetVars>>

\* lines 182-202 on the loaded dict
ApplyAddTarget ==
    /\ Len(applied) < MaxApplied
    /\ pd0' = pd
    /\ IF pd.hasMapping /\ TargetRaises(pd.mapping, reg)
       THEN /\ pd' = pd
            /\ applied' = Append(applied, "raise")
       ELSE /\ pd' = AddTargetDict(pd, reg)
            /\ applied' = Append(applied, "_add_target")
    /\ UNCHANGED <<runVars, reg, targetVars>>

NextPreset == ApplyMappingKeys \/ ApplyAddTarget

SpecPreset == InitPreset /\ [][NextPreset]_vars

----------------------------------------------------------------------------
(* SpecTarget: _find_target applied to one symbol under one registry.      *)

DeviceNames == {"keyboard", "gamepad", "mouse"}

Codes == 1..MaxCode

DeviceChoices == [name : DeviceNames, key : SUBSET Codes]

\* global_uinputs.devices is a dict: its names are distinct
Registries ==
    UNION {{d \in [1..n -> DeviceChoices] :
               \A i, j \in 1..n : i # j => d[i].name # d[j].name} : n \in 0..MaxDevices}

InitTarget ==
    /\ IdleRun
    /\ pd = NoPreset /\ pd0 = NoPreset /\ applied = <<>>
    /\ reg \in Registries
    /\ sym \in {Symbol(n) : n \in SymbolNames}
    /\ res = NoResult

\* the call _find_target(symbol), line 189
FindTarget ==
    /\ ~res.called
    /\ res' = [called |-> TRUE, raised |-> _find_target(sym, reg).raised,
               target |-> _find_target(sym, reg).target]
    /\ UNCHANGED <<runVars, presetVars, reg, sym>>

NextTarget == FindTarget

SpecTarget == InitTarget /\ [][NextTarget]_vars

----------------------------------------------------------------------------
(* The stepwise run and the composition agree.                             *)

StepsAgreeWithMigrate ==
    (runs = 1 /\ crashes = 0 /\ pc = "idle" /\ ~last.repaired) =>
        IF migrate(init).raised THEN done = 0
        ELSE done = 1 /\ fs = migrate(init).fs

----------------------------------------------------------------------------
(* Properties of a run of migrate()                                        *)

\* the most recent invocation of migrate() returned normally; log and v are its
Completed == pc = "idle" /\ last.set /\ last.clean

\* the first invocation returned normally and nothing else has happened
FirstRunReturned == runs = 1 /\ done = 1 /\ pc = "idle"

TwoComponent(key) == Len(key) = 2

\* the parseable presets with a mapping under presets/ of a root
MappedPresets(root) ==
    {path \in (DOMAIN root.presets) \X FileNames :
        /\ path[2] \in DOMAIN root.presets[path[1]]
        /\ root.presets[path[1]][path[2]].ok
        /\ root.presets[path[1]][path[2]].hasMapping}

KeysNormalized(root) ==
    \A path \in MappedPresets(root) :
        \A key \in DictKeys(root.presets[path[1]][path[2]].mapping) : ~TwoComponent(key)

ValuesPaired(root) ==
    \A path \in MappedPresets(root) :
        LET m == root.presets[path[1]][path[2]].mapping
        IN  \A i \in DOMAIN m : m[i].val.isList

\* the tree C1 starts from: no config.json, a legacy config, groups at the top level
LegacyTree(tree) ==
    /\ tree.cur.exists
    /\ ~tree.cur.configjson.exists
    /\ tree.cur.config.exists
    /\ ~tree.cur.hasPresets

\* the preset `before` of the legacy tree became `after`
Converted(before, after) ==
    (before.ok /\ before.hasMapping) =>
        /\ after.ok /\ after.hasMapping
        /\ \A key \in DictKeys(before.mapping) :
              TwoComponent(key) =>
                  /\ key \notin DictKeys(after.mapping)
                  /\ Append(key, 1) \in DictKeys(after.mapping)
        /\ \A i \in DOMAIN after.mapping : after.mapping[i].val.isList

(* C1: from a legacy tree (no config.json, an extensionless config, group  *)
(* directories at the top level) one complete run of migrate() ends with   *)
(* config.json stamped with VERSION, presets/ holding exactly the same     *)
(* group names, every 2-component key of every parseable preset in         *)
(* 3-component form and every mapping value a pair.                        *)
C1_EndToEnd ==
    (LegacyTree(init) /\ FirstRunReturned) =>
        /\ fs.cur.configjson.exists
        /\ fs.cur.configjson.hasVersion
        /\ fs.cur.configjson.version = VERSION
        /\ fs.cur.hasPresets
        /\ DOMAIN fs.cur.presets = DOMAIN init.cur.dirs
        /\ \A g \in DOMAIN init.cur.dirs :
              /\ DOMAIN fs.cur.presets[g] = DOMAIN init.cur.dirs[g]
              /\ \A p \in DOMAIN init.cur.dirs[g] :
                    Converted(init.cur.dirs[g][p], fs.cur.presets[g][p])

\* a legacy tree with two groups, one holding a 2-component key, has been migrated
C1_Witness ==
    /\ LegacyTree(init)
    /\ FirstRunReturned
    /\ Cardinality(DOMAIN init.cur.dirs) >= 2
    /\ \E g \in DOMAIN init.cur.dirs :
          /\ "preset.json" \in DOMAIN init.cur.dirs[g]
          /\ \E key \in DictKeys(init.cur.dirs[g]["preset.json"].mapping) : TwoComponent(key)

(* C2: two runs of migrate() in succession, both to completion: the tree   *)
(* after the second run is the tree after the first.                       *)
C2_Idempotent == last.twice => last.fs = last.prev

(* C3: a run interrupted between two filesystem operations, then a run to  *)
(* completion: the tree is the one an uninterrupted run makes of the       *)
(* initial tree.                                                           *)
C3_CrashTolerant ==
    (Completed /\ done = 1 /\ crashes >= 1 /\ ~migrate(init).raised) =>
        fs = migrate(init).fs

(* C4: after the first completed run no later invocation runs any step.    *)
C4_AtMostOnce == (done >= 1 /\ pc # "idle") => log = <<"config_version">>

StepNames ==
    {"_config_suffix", "_preset_path", "_mapping_keys", "_rename_config", "prepare",
     "_add_target", "_update_version"}

(* C4 as amended: within one invocation no step runs twice, and after a    *)
(* completed run that leaves a config.json in place no later invocation    *)
(* runs any step.                                                          *)
C4_AtMostOnceWhenStamped ==
    /\ \A i, j \in DOMAIN log : (i # j /\ log[i] \in StepNames) => log[i] # log[j]
    /\ (last.set /\ last.fs.cur.configjson.exists /\ pc # "idle") =>
          log = <<"config_version">>

\* a later invocation has reached its end after a run that left a stamped config.json
C4_Witness ==
    /\ last.set
    /\ last.fs.cur.configjson.exists
    /\ DOMAIN init.cur.dirs # {}
    /\ ~init.cur.configjson.exists
    /\ pc = "gver"

(* C5: whenever migrate() returns having stamped config.json with VERSION, *)
(* the results of the steps gated above the version it read are in place:  *)
(* the parseable presets under presets/ have only 3-component keys and     *)
(* only pair values.                                                       *)
C5_EarlierStepsInEffect ==
    (/\ Completed
     /\ log[Len(log)] = "_update_version"
     /\ fs.cur.configjson.exists
     /\ fs.cur.configjson.version = VERSION) =>
        /\ VersionLess(v, <<1, 2, 2>>) => KeysNormalized(fs.cur)
        /\ VersionLess(v, <<1, 4, 0>>) => ValuesPaired(fs.cur)

EventRank(event) ==
    CASE event = "config_version" -> 1
      [] event = "_config_suffix" -> 2
      [] event = "_preset_path" -> 3
      [] event = "_mapping_keys" -> 4
      [] event = "_rename_config" -> 5
      [] event = "prepare" -> 6
      [] event = "_add_target" -> 7
      [] event = "_find_target" -> 8
      [] event = "_update_version" -> 9
      [] event = "raise" -> 10

InLog(event) == \E i \in DOMAIN log : log[i] = event

(* C6: migrate() reads the stored version once, before any step; a step    *)
(* runs iff the version read is below its threshold; the steps run in      *)
(* ascending threshold order, none twice; prepare() precedes every target  *)
(* resolution; the version stamp comes last, iff the version read is below *)
(* VERSION.                                                                *)
C6_GatingAndOrder ==
    /\ log # <<>> => log[1] = "config_version"
    /\ \A i, j \in DOMAIN log :
          i < j => \/ EventRank(log[i]) < EventRank(log[j])
                   \/ log[i] = "_find_target" /\ log[j] = "_find_target"
    /\ InLog("_find_target") => InLog("prepare") /\ prepared
    /\ Completed =>
          /\ InLog("_config_suffix") <=> VersionLess(v, <<0, 4, 0>>)
          /\ InLog("_preset_path") <=> VersionLess(v, <<0, 4, 0>>)
          /\ InLog("_mapping_keys") <=> VersionLess(v, <<1, 2, 2>>)
          /\ InLog("_rename_config") <=> VersionLess(v, <<1, 3, 0>>)
          /\ InLog("prepare") <=> VersionLess(v, <<1, 4, 0>>)
          /\ InLog("_add_target") <=> VersionLess(v, <<1, 4, 0>>)
          /\ InLog("_update_version") <=> VersionLess(v, VERSION)

\* a run that read 1.2.2 has returned: two gates closed, two open, targets resolved
C6_Witness ==
    /\ Completed
    /\ v = <<1, 2, 2>>
    /\ InLog("_find_target")
    /\ InLog("_rename_config")
    /\ log[Len(log)] = "_update_version"

----------------------------------------------------------------------------
(* Properties of _find_target (SpecTarget)                                 *)

CanEmit(device, symbol) == SymbolTable[symbol[1]].key \subseteq device.key

NeedsRel(symbol) == SymbolTable[symbol[1]].rel # {}

(* C7: _find_target returns "mouse" for a symbol that needs a relative-    *)
(* motion code, whatever the devices; otherwise the first device in        *)
(* enumeration order whose key capabilities include the required codes;    *)
(* otherwise nothing.                                                      *)
C7_TargetPriority ==
    (res.called /\ ~res.raised) =>
        /\ NeedsRel(sym) => res.target = "mouse"
        /\ (~NeedsRel(sym) /\ \E i \in DOMAIN reg : CanEmit(reg[i], sym)) =>
              \E i \in DOMAIN reg :
                  /\ CanEmit(reg[i], sym)
                  /\ \A j \in 1..(i - 1) : ~CanEmit(reg[j], sym)
                  /\ res.target = reg[i].name
        /\ (~NeedsRel(sym) /\ \A i \in DOMAIN reg : ~CanEmit(reg[i], sym)) =>
              res.target = NoTarget

\* two devices can emit the symbol and the first was returned
C7_Witness ==
    /\ res.called
    /\ ~res.raised
    /\ ~NeedsRel(sym)
    /\ SymbolTable[sym[1]].key # {}
    /\ \E i, j \in DOMAIN reg :
          /\ i < j
          /\ CanEmit(reg[i], sym)
          /\ CanEmit(reg[j], sym)
          /\ res.target = reg[i].name

----------------------------------------------------------------------------
(* Properties of the per-preset transforms (SpecPreset)                    *)

LastApplied == IF applied = <<>> THEN "" ELSE applied[Len(applied)]

\* no registered device can emit the required key codes of a symbol that resolves
NoDeviceCanEmit(symbol) ==
    Resolvable(symbol) /\ \A i \in DOMAIN reg : ~CanEmit(reg[i], symbol)

\* the entry of pd0 at i is a bare symbol kept, annotated, with the keyboard target
KeptAnnotated(i) ==
    /\ pd0.mapping[i].key \in DictKeys(pd.mapping)
    /\ DictGet(pd.mapping, pd0.mapping[i].key) =
          [isList |-> TRUE,
           symbol |-> pd0.mapping[i].val.symbol
                        \o <<"# Broken mapping:", "# No target can handle all specified keycodes">>,
           target |-> "keyboard"]

(* C8: when no registered device can emit a bare symbol's required key     *)
(* codes, _add_target keeps the entry under its key with target "keyboard" *)
(* and the annotated symbol, and the mapping keeps its number of entries.  *)
C8_FallbackAnnotate ==
    LastApplied = "_add_target" =>
        /\ Len(pd.mapping) = Len(pd0.mapping)
        /\ \A i \in DOMAIN pd0.mapping :
              (~pd0.mapping[i].val.isList /\ NoDeviceCanEmit(pd0.mapping[i].val.symbol)) =>
                  KeptAnnotated(i)

(* C8 as amended: the same, for a bare symbol that requires no relative-   *)
(* motion code (one that does gets the target "mouse", unannotated).       *)
C8_FallbackAnnotateNoRel ==
    LastApplied = "_add_target" =>
        /\ Len(pd.mapping) = Len(pd0.mapping)
        /\ \A i \in DOMAIN pd0.mapping :
              (/\ ~pd0.mapping[i].val.isList
               /\ NoDeviceCanEmit(pd0.mapping[i].val.symbol)
               /\ ~NeedsRel(pd0.mapping[i].val.symbol)) =>
                  KeptAnnotated(i)

\* _add_target has annotated a symbol no device can emit, beside another entry
C8_Witness ==
    /\ LastApplied = "_add_target"
    /\ Len(pd0.mapping) = 2
    /\ \E i \in DOMAIN pd0.mapping :
          /\ ~pd0.mapping[i].val.isList
          /\ NoDeviceCanEmit(pd0.mapping[i].val.symbol)
          /\ ~NeedsRel(pd0.mapping[i].val.symbol)
          /\ pd.mapping[i].val.target = "keyboard"

(* C9: _mapping_keys replaces every key "t,c" by "t,c,1" with the same     *)
(* value and removes the old key; a key with another number of commas      *)
(* keeps its name; the step applied twice gives what it gives once.        *)
C9_KeyNormalization ==
    /\ (LastApplied = "_mapping_keys" /\ pd0.hasMapping) =>
          \A key \in DictKeys(pd0.mapping) :
              IF Len(key) = 2
              THEN /\ key \notin DictKeys(pd.mapping)
                   /\ Append(key, 1) \in DictKeys(pd.mapping)
                   /\ DictGet(pd.mapping, Append(key, 1)) = DictGet(pd0.mapping, key)
              ELSE key \in DictKeys(pd.mapping)
    /\ (Len(applied) >= 2 /\ applied[Len(applied)] = "_mapping_keys"
          /\ applied[Len(applied) - 1] = "_mapping_keys") => pd = pd0

\* _mapping_keys has met "1,5" beside "1,5,1"
C9_Witness ==
    /\ applied = <<"_mapping_keys">>
    /\ <<1, 5>> \in DictKeys(pd0.mapping)
    /\ <<1, 5, 1>> \in DictKeys(pd0.mapping)
    /\ <<1, 5, 1>> \in DictKeys(pd.mapping)

(* C10: _mapping_keys leaves every entry whose key is already in           *)
(* 3-component form with its value, and the mapping with its number of     *)
(* entries.                                                                *)
C10_NoDataLoss ==
    (LastApplied = "_mapping_keys" /\ pd0.hasMapping) =>
        /\ Len(pd.mapping) = Len(pd0.mapping)
        /\ \A key \in DictKeys(pd0.mapping) :
              Len(key) = 3 =>
                  /\ key \in DictKeys(pd.mapping)
                  /\ DictGet(pd.mapping, key) = DictGet(pd0.mapping, key)

----------------------------------------------------------------------------
(* Properties of the failure paths of migrate()                            *)

(* C11: a symbol that fails to resolve (a malformed macro, a name the      *)
(* lookup table does not know) is confined to its entry: no invocation of  *)
(* migrate() ends with the failure of _find_target leaving it.             *)
C11_EntryFailureIsolated ==
    (pc = "idle" /\ Len(log) >= 2 /\ log[Len(log) - 1] = "_find_target") =>
        log[Len(log)] # "raise"

\* the places of a tree that hold group directories
Places == {"cur.dirs", "cur.presets", "old.dirs", "old.presets"}

GroupsAt(tree, place) ==
    CASE place = "cur.dirs" -> tree.cur.dirs
      [] place = "cur.presets" -> tree.cur.presets
      [] place = "old.dirs" -> tree.old.dirs
      [] place = "old.presets" -> tree.old.presets

\* the files named *.json, anywhere in the tree, that do not parse
MalformedPresets(tree) ==
    {x \in Places \X (1..(MaxGroups + 1)) \X FileNames :
        /\ x[2] \in DOMAIN GroupsAt(tree, x[1])
        /\ x[3] \in DOMAIN GroupsAt(tree, x[1])[x[2]]
        /\ HasJsonSuffix(x[3])
        /\ ~GroupsAt(tree, x[1])[x[2]][x[3]].ok}

\* a directory without its malformed preset files
WellFormed(dir) ==
    [p \in {q \in DOMAIN dir : HasJsonSuffix(q) => dir[q].ok} |-> dir[p]]

WellFormedGroups(groups) == [g \in DOMAIN groups |-> WellFormed(groups[g])]

\* the tree without its malformed preset files
WithoutMalformed(tree) ==
    [tree EXCEPT !.cur.dirs = WellFormedGroups(@), !.cur.presets = WellFormedGroups(@),
                 !.old.dirs = WellFormedGroups(@), !.old.presets = WellFormedGroups(@)]

RepairedPresets(root) ==
    {path \in MappedPresets(root) :
        DictKeys(root.presets[path[1]][path[2]].mapping) \subseteq {<<3, 7>>, <<3, 7, 1>>}
        /\ root.presets[path[1]][path[2]].mapping # <<>>}

(* C13: on an installation whose stored version is 0.0.0, a preset file    *)
(* skipped as malformed and repaired before the next invocation has its    *)
(* keys normalized and its values paired once that invocation has returned.*)
C13_RetryAfterRepair ==
    (Completed /\ last.repaired /\ init.cur.exists /\ config_version(init) = <<0, 0, 0>>) =>
        \A path \in RepairedPresets(fs.cur) :
            LET m == fs.cur.presets[path[1]][path[2]].mapping
            IN  \A i \in DOMAIN m : ~TwoComponent(m[i].key) /\ m[i].val.isList

----------------------------------------------------------------------------
(* Frame properties of the steps                                           *)

\* the listing of the top level of a config root
TopLevel(root) ==
    [config |-> root.config.exists, configjson |-> root.configjson.exists,
     presets |-> root.hasPresets, dirs |-> DOMAIN root.dirs]

(* C14: from a tree in which presets/ exists under the config root, the    *)
(* listing of the top level of the config root never changes.              *)
C14_TopLevelUnchanged ==
    (init.cur.exists /\ init.cur.hasPresets) => TopLevel(fs.cur) = TopLevel(init.cur)

(* C14 as amended: from such a tree the directories at the top level and   *)
(* the groups under presets/ never change, and the files do not either but *)
(* for the rename of an extensionless config to config.json when there was *)
(* no config.json.                                                         *)
C14_TopLevelDirsUnchanged ==
    (init.cur.exists /\ init.cur.hasPresets) =>
        /\ fs.cur.exists
        /\ fs.cur.hasPresets
        /\ DOMAIN fs.cur.dirs = DOMAIN init.cur.dirs
        /\ DOMAIN fs.cur.presets = DOMAIN init.cur.presets
        /\ \/ TopLevel(fs.cur) = TopLevel(init.cur)
           \/ /\ init.cur.config.exists
              /\ ~init.cur.configjson.exists
              /\ ~fs.cur.config.exists
              /\ fs.cur.configjson.exists

\* a run from 0.0.0 has returned on a tree with presets/ beside a top-level directory
C14_Witness ==
    /\ Completed
    /\ init.cur.exists /\ init.cur.hasPresets
    /\ init.cur.config.exists
    /\ DOMAIN init.cur.dirs # {}
    /\ InLog("_preset_path")
    /\ fs.cur.configjson.exists

----------------------------------------------------------------------------
(* Monotonicity of the gates                                               *)

\* the versions a config.json may hold, the thresholds and their neighbours
GateVersions ==
    {<<0, 0, 0>>, <<0, 3, 9>>, <<0, 4, 0>>, <<1, 2, 1>>, <<1, 2, 2>>, <<1, 2, 3>>,
     <<1, 3, 0>>, <<1, 3, 1>>, <<1, 4, 0>>, <<1, 5, 0>>}

\* the threshold each step is written under in migrate()
Threshold(step) ==
    CASE step \in {"_config_suffix", "_preset_path"} -> <<0, 4, 0>>
      [] step = "_mapping_keys" -> <<1, 2, 2>>
      [] step = "_rename_config" -> <<1, 3, 0>>
      [] step \in {"prepare", "_add_target"} -> <<1, 4, 0>>
      [] step = "_update_version" -> VERSION

(* C15: a run that read v has executed every step whose threshold is above *)
(* v, and every step that a run reading any later version executes.        *)
C15_GatingMonotone ==
    Completed =>
        /\ \A step \in StepNames : VersionLess(v, Threshold(step)) => InLog(step)
        /\ \A v2 \in GateVersions :
              VersionLess(v, v2) => \A step \in GatedSteps(v2) : InLog(step)

\* a run that read 1.2.2 has returned; a run reading 1.3.0 executes three steps
C15_Witness ==
    /\ Completed
    /\ v = <<1, 2, 2>>
    /\ GatedSteps(<<1, 3, 0>>) = {"prepare", "_add_target", "_update_version"}
    /\ InLog("_rename_config")
    /\ ~InLog("_mapping_keys")

----------------------------------------------------------------------------
(* Pair values under _add_target (SpecPreset)                              *)

(* C16: _add_target leaves every value that is already a pair as it is,    *)
(* whatever its target, and does not resolve its symbol: it fails only on  *)
(* a bare symbol; applied twice it gives what it gives once.               *)
C16_PairsUntouched ==
    /\ LastApplied = "_add_target" =>
          /\ KeyList(pd.mapping) = KeyList(pd0.mapping)
          /\ \A i \in DOMAIN pd0.mapping :
                pd0.mapping[i].val.isList => pd.mapping[i] = pd0.mapping[i]
    /\ LastApplied = "raise" =>
          \E i \in DOMAIN pd0.mapping :
              ~pd0.mapping[i].val.isList /\ ~Resolvable(pd0.mapping[i].val.symbol)
    /\ (Len(applied) >= 2 /\ applied[Len(applied)] = "_add_target"
          /\ applied[Len(applied) - 1] = "_add_target") => pd = pd0

\* the step has run twice on a pair whose symbol does not parse beside an annotated symbol
C16_Witness ==
    /\ applied = <<"_add_target", "_add_target">>
    /\ \E i, j \in DOMAIN pd.mapping :
          /\ pd.mapping[i].val = Pair(Symbol("k("), "gamepad")
          /\ pd.mapping[j].val = Pair(Annotate(Symbol("k(KEY_A).k(BTN_X)")), "keyboard")

----------------------------------------------------------------------------
(* Config relocation                                                       *)

\* this step of migrate() is the relocation step
Relocates == pc = "g130" /\ pc' = "g140" /\ VersionLess(v, <<1, 3, 0>>)

(* C17: the relocation step moves the legacy root to the current root iff  *)
(* the current root does not exist and the legacy root does; then the      *)
(* legacy root is gone and the current root holds what it held; in every   *)
(* other case both trees stay as they are.                                 *)
C17_Relocation ==
    [][Relocates =>
          IF ~fs.cur.exists /\ fs.old.exists
          THEN fs'.cur = fs.old /\ ~fs'.old.exists /\ fs'.old = NoRoot
          ELSE fs'.cur = fs.cur /\ fs'.old = fs.old]_vars

\* a legacy root with a group has just been relocated
C17_Witness ==
    /\ pc = "g140"
    /\ runs = 1 /\ crashes = 0
    /\ InLog("_rename_config")
    /\ ~init.cur.exists
    /\ init.old.exists
    /\ DOMAIN init.old.presets # {}
    /\ fs.cur = init.old
    /\ ~fs.old.exists

----------------------------------------------------------------------------
(* The version stamp                                                       *)

\* the config files of the installation
ConfigFiles(tree) ==
    {x \in {"cur.config", "cur.config.json", "old.config", "old.config.json"} :
        CASE x = "cur.config" -> tree.cur.config.exists
          [] x = "cur.config.json" -> tree.cur.configjson.exists
          [] x = "old.config" -> tree.old.config.exists
          [] x = "old.config.json" -> tree.old.configjson.exists}

\* this step of migrate() is the stamp of the version
Stamps == pc = "gver" /\ pc' = "idle" /\ done' = done + 1 /\ VersionLess(v, VERSION)

(* C18: the stamp changes nothing but the version field of config.json     *)
(* (the other settings stay), and nothing at all when there is no          *)
(* config.json; no step of migrate() changes the number of config files.   *)
C18_StampFrame ==
    [][/\ Cardinality(ConfigFiles(fs')) = Cardinality(ConfigFiles(fs))
       /\ Stamps =>
             /\ fs'.old = fs.old
             /\ [fs'.cur EXCEPT !.configjson = fs.cur.configjson] = fs.cur
             /\ fs'.cur.configjson.exists = fs.cur.configjson.exists
             /\ fs'.cur.configjson.ok = fs.cur.configjson.ok
             /\ fs'.cur.configjson.settings = fs.cur.configjson.settings
             /\ ~fs.cur.configjson.exists => fs' = fs]_vars

\* a config.json holding 1.2.2 and a setting has been stamped
C18_Witness ==
    /\ Completed
    /\ v = <<1, 2, 2>>
    /\ log[Len(log)] = "_update_version"
    /\ init.cur.configjson.settings = "autoload"
    /\ fs.cur.configjson.settings = "autoload"
    /\ fs.cur.configjson.version = VERSION

----------------------------------------------------------------------------
(* The stored version over the invocations                                 *)

(* C19: whenever migrate() is not running, config_version() is not below   *)
(* what it was at the start, nor below what the last invocation read; and  *)
(* an invocation that read a version not below VERSION writes nothing.     *)
C19_VersionNeverBackwards ==
    [][/\ pc' = "idle" => ~VersionLess(config_version(fs'), config_version(init))
       /\ (pc' = "idle" /\ log' # <<>>) => ~VersionLess(config_version(fs'), v')
       /\ (pc # "idle" /\ ~VersionLess(v, VERSION)) => fs' = fs]_vars

\* a second invocation has returned on a tree with legacy presets, having read a
\* version above VERSION and run no step
C19_Witness ==
    /\ Completed
    /\ done = 2
    /\ v = <<1, 5, 0>>
    /\ log = <<"config_version">>
    /\ config_version(init) = <<1, 5, 0>>
    /\ ~KeysNormalized(init.cur)
    /\ fs = init

----------------------------------------------------------------------------
(* Conservation of the preset files                                        *)

\* how many times the installation holds the preset file `name` of `group`
PresetCount(tree, group, name) ==
    Cardinality({place \in Places :
        /\ group \in DOMAIN GroupsAt(tree, place)
        /\ name \in DOMAIN GroupsAt(tree, place)[group]})

\* how many group directories named `group` the installation holds
GroupCount(tree, group) ==
    Cardinality({place \in Places : group \in DOMAIN GroupsAt(tree, place)})

(* C20: at every point of every run the installation holds the same        *)
(* (group, preset file) pairs, each as many times, as at the start, and    *)
(* the same group directories: the steps move groups whole and create,     *)
(* delete or rename no preset file.                                        *)
C20_PresetsConserved ==
    \A group \in 1..(MaxGroups + 1) :
        /\ GroupCount(fs, group) = GroupCount(init, group)
        /\ \A name \in {n \in FileNames : HasJsonSuffix(n)} :
              PresetCount(fs, group, name) = PresetCount(init, group, name)

\* two groups of a legacy root have been relocated by one run and nested by the next
C20_Witness ==
    /\ Completed
    /\ done = 2
    /\ ~init.cur.exists
    /\ Cardinality(DOMAIN init.old.dirs) >= 2
    /\ DOMAIN fs.cur.presets = DOMAIN init.old.dirs
    /\ \A g \in DOMAIN init.old.dirs : "preset.json" \in DOMAIN init.old.dirs[g]

====
